---- MODULE Spec2Model ----
(***************************************************************************)
(* A pointer-level model of src/src/allocator.c: the main arena (address   *)
(* list, skip-list size index, rover, split and coalesce), the buddy arena *)
(* and the strategy tag.  Pointers are byte addresses, headers are records *)
(* stored in a memory map keyed by address, and a header that is no longer *)
(* part of any block stays in memory exactly as the code left it.          *)
(* Payload bytes written by the caller are not part of the model.          *)
(***************************************************************************)
EXTENDS Integers, Sequences, FiniteSets, TLC

(* ------------------------------------------------------------------ *)
(* Program constants                                                   *)
(* ------------------------------------------------------------------ *)
NULL == 0
HEAP_SIZE == 4096
MIN_TAIL == 32
MAGIC_F == "FEEDFACE"
MAGIC_A == "DEADBEEF"
MAGIC_0 == "00000000"          \* a header in memory mmap zero-filled
SKLVL == 6
HDRSZ == 88                    \* sizeof(free_blk_t), LP64
BUDHDR == 32                   \* sizeof(bud_t), LP64
MAXORD == 13
heap0 == 8192                  \* the address mmap returned for the main arena
b_arena == 16384               \* the address mmap returned for the buddy arena
heap0_end == heap0 + HEAP_SIZE

ALLOC_STRATEGY_FIRST == 1
ALLOC_STRATEGY_NEXT == 2
ALLOC_STRATEGY_BEST == 3
ALLOC_STRATEGY_WORST == 4
ALLOC_STRATEGY_BUDDY == 5

(* ------------------------------------------------------------------ *)
(* Bounds of the model                                                 *)
(* ------------------------------------------------------------------ *)
MaxLvl == 2                    \* rand_lvl() outcomes explored: 1..MaxLvl
MaxLvlFlat == 1                \* the same in the runs whose subject is not the index
MaxLive == 2                   \* outstanding main-arena handles
MaxLiveBuddy == 3              \* outstanding buddy handles
MaxLiveAll == 2                \* outstanding handles when both arenas run together
MaxLiveList == 3               \* outstanding main-arena handles, five-block runs

Min(a, b) == IF a < b THEN a ELSE b
Levels == 1..Min(MaxLvl, SKLVL)
LevelsFlat == 1..Min(MaxLvlFlat, SKLVL)
\* size_t is 64 bits wide and its arithmetic wraps.  A value of 2^63 or
\* more is written as the negative number it is congruent to modulo 2^64,
\* so that + is the addition of the code; SIZE_MAX is 2^64 - 1.
SIZE_MAX == -1

Sizes == {936, 1960}
BuddySizes == {0, 500, 1000, 2000, HEAP_SIZE - BUDHDR, HEAP_SIZE - BUDHDR + 1,
               SIZE_MAX - 15}
SizesAll == {0, 936}
SizesList == {730}             \* five blocks fill the arena, the last with 6 bytes to spare
BuddySizesAll == {0, 2000}

HANG == -1                     \* a loop of the code that never exits

VARIABLES
    heap0_inited,      \* static int heap0_inited
    mem,               \* main arena: address -> free_blk_t header written there
    alist_head,        \* static free_blk_t *alist_head
    rover,             \* static free_blk_t *rover
    sidx,              \* sidx.head[0..SKLVL-1]
    current_strategy,  \* static int current_strategy
    b_inited,          \* static int b_inited
    bmem,              \* buddy arena: address -> the byte there, if not zero
    bfl,               \* static bud_t *bfl[MAXORD]
    live,              \* caller's view: handle -> [n, cnt] of outstanding returns
    hang,              \* TRUE once a call did not return: a loop never left, a fault
    twin,              \* a second process given the same calls: its allocator
    same               \* TRUE while every allocation call returned the same in both

vars == <<heap0_inited, mem, alist_head, rover, sidx, current_strategy,
          b_inited, bmem, bfl, live, hang, twin, same>>

(* ------------------------------------------------------------------ *)
(* Main arena: headers and the address list                            *)
(* ------------------------------------------------------------------ *)
NoSnext == [i \in 0..(SKLVL - 1) |-> NULL]

\* The main-arena state the helpers thread through a call.
\* lv holds the values the coming calls of rand_lvl() return, in order.
At(hs) == [mem |-> mem, alist_head |-> alist_head, rover |-> rover, sidx |-> sidx,
           inited |-> heap0_inited, strategy |-> current_strategy, hang |-> FALSE,
           lv |-> hs]

Fuel(S) == Cardinality(DOMAIN S.mem) + 1

\* cmp_size_addr without the address tie-break: equal sizes compare equal
cmp_size_addr_sizes_only(S, a, b) ==
    IF S.mem[a].sz < S.mem[b].sz THEN -1
    ELSE IF S.mem[a].sz > S.mem[b].sz THEN 1
    ELSE 0

cmp_size_addr(S, a, b) ==
    IF S.mem[a].sz < S.mem[b].sz THEN -1
    ELSE IF S.mem[a].sz > S.mem[b].sz THEN 1
    ELSE IF a < b THEN -1 ELSE IF a > b THEN 1 ELSE 0

adjacent(S, a, b) == a + HDRSZ + S.mem[a].sz = b

alu(S, n) ==
    LET S1 == IF S.mem[n].aprev # NULL
              THEN [S EXCEPT !.mem[S.mem[n].aprev].anext = S.mem[n].anext]
              ELSE [S EXCEPT !.alist_head = S.mem[n].anext]
        S2 == IF S1.mem[n].anext # NULL
              THEN [S1 EXCEPT !.mem[S1.mem[n].anext].aprev = S1.mem[n].aprev]
              ELSE S1
    IN  [S2 EXCEPT !.mem[n].aprev = NULL, !.mem[n].anext = NULL]

\* alb without "if (next) next->aprev = n": the back link is left as it was
alb_no_back_link(S, prev, next, n) ==
    LET S1 == [S EXCEPT !.mem[n].aprev = prev, !.mem[n].anext = next]
    IN  IF prev # NULL THEN [S1 EXCEPT !.mem[prev].anext = n]
        ELSE [S1 EXCEPT !.alist_head = n]

alb(S, prev, next, n) ==
    LET S1 == [S EXCEPT !.mem[n].aprev = prev, !.mem[n].anext = next]
        S2 == IF prev # NULL THEN [S1 EXCEPT !.mem[prev].anext = n]
              ELSE [S1 EXCEPT !.alist_head = n]
    IN  IF next # NULL THEN [S2 EXCEPT !.mem[next].aprev = n] ELSE S2

(* ------------------------------------------------------------------ *)
(* Size index (skip list)                                              *)
(* ------------------------------------------------------------------ *)
\* (cur ? cur->snext[i] : sidx.head[i])
sidx_fwd(S, cur, i) == IF cur = NULL THEN S.sidx[i] ELSE S.mem[cur].snext[i]

\* while (p && cmp_size_addr(p,n) < 0){ cur=p; p=p->snext[i]; }  -> cur
RECURSIVE sidx_walk_lt(_, _, _, _, _)
sidx_walk_lt(S, cur, i, n, fuel) ==
    LET p == sidx_fwd(S, cur, i)
    IN  IF p # NULL /\ cmp_size_addr(S, p, n) < 0
        THEN IF fuel = 0 THEN HANG ELSE sidx_walk_lt(S, p, i, n, fuel - 1)
        ELSE cur

\* the descent of sidx_insert and sidx_remove_exact: upd[SKLVL-1..0]
RECURSIVE sidx_search(_, _, _, _, _)
sidx_search(S, n, i, cur, upd) ==
    IF i < 0 THEN [hang |-> FALSE, upd |-> upd]
    ELSE LET c == sidx_walk_lt(S, cur, i, n, Fuel(S))
         IN  IF c = HANG THEN [hang |-> TRUE, upd |-> upd]
             ELSE sidx_search(S, n, i - 1, c, [upd EXCEPT ![i] = c])

\* for (i=0;i<L;i++) splice n after upd[i] at level i
RECURSIVE sidx_splice(_, _, _, _, _)
sidx_splice(S, n, upd, i, L) ==
    IF i >= L THEN S
    ELSE LET p  == sidx_fwd(S, upd[i], i)
             S1 == [S EXCEPT !.mem[n].snext[i] = p]
             S2 == IF upd[i] # NULL THEN [S1 EXCEPT !.mem[upd[i]].snext[i] = n]
                   ELSE [S1 EXCEPT !.sidx[i] = n]
         IN  sidx_splice(S2, n, upd, i + 1, L)

\* the value of rand_lvl(): the next of the drawn levels
rand_lvl(S) == Head(S.lv)

\* n->lvl = rand_lvl(): the level is stored and the draw is used up
sidx_insert_drawn(S, n) == [S EXCEPT !.mem[n].lvl = Head(S.lv), !.lv = Tail(S.lv)]

\* for (int i=L;i<SKLVL;i++) n->snext[i]=NULL;
sidx_insert_clear(S, n, L) ==
    [S EXCEPT !.mem[n].snext =
        [i \in 0..(SKLVL - 1) |-> IF i >= L THEN NULL ELSE S.mem[n].snext[i]]]

\* the splice of sidx_insert once the descent returned r
sidx_insert_at(S, n, L, r) ==
    IF r.hang THEN [S EXCEPT !.hang = TRUE]
    ELSE sidx_insert_clear(sidx_splice(S, n, r.upd, 0, L), n, L)

\* sidx_insert without the descent: n is spliced at the head of each level
sidx_insert_level_at_head(S, n, L) ==
    sidx_insert_at(S, n, L, [hang |-> FALSE, upd |-> NoSnext])

\* sidx_insert after the draw of the level L
sidx_insert_level(S, n, L) ==
    sidx_insert_at(S, n, L, sidx_search(S, n, SKLVL - 1, NULL, NoSnext))

sidx_insert(S, n) ==
    IF S.hang THEN S
    ELSE sidx_insert_level(sidx_insert_drawn(S, n), n, rand_lvl(S))

\* for (i=0;i<SKLVL;i++) if the successor of upd[i] is n, unlink it
RECURSIVE sidx_unsplice(_, _, _, _)
sidx_unsplice(S, n, upd, i) ==
    IF i >= SKLVL THEN S
    ELSE LET next == sidx_fwd(S, upd[i], i)
             S1 == IF next = n
                   THEN IF upd[i] # NULL
                        THEN [S EXCEPT !.mem[upd[i]].snext[i] = S.mem[n].snext[i]]
                        ELSE [S EXCEPT !.sidx[i] = S.mem[n].snext[i]]
                   ELSE S
         IN  sidx_unsplice(S1, n, upd, i + 1)

\* the unlinking of sidx_remove_exact once the descent returned r
sidx_remove_at(S, n, r) ==
    IF r.hang THEN [S EXCEPT !.hang = TRUE]
    ELSE sidx_unsplice(S, n, r.upd, 0)

sidx_remove_exact(S, n) ==
    IF S.hang THEN S
    ELSE sidx_remove_at(S, n, sidx_search(S, n, SKLVL - 1, NULL, NoSnext))

\* while (p && p->sz < need){ cur=p; p=p->snext[i]; }  -> cur
RECURSIVE sidx_walk_ge(_, _, _, _, _)
sidx_walk_ge(S, cur, i, need, fuel) ==
    LET p == sidx_fwd(S, cur, i)
    IN  IF p # NULL /\ S.mem[p].sz < need
        THEN IF fuel = 0 THEN HANG ELSE sidx_walk_ge(S, p, i, need, fuel - 1)
        ELSE cur

RECURSIVE sidx_ge_from(_, _, _, _)
sidx_ge_from(S, need, i, cur) ==
    IF i < 0 THEN sidx_fwd(S, cur, 0)
    ELSE LET c == sidx_walk_ge(S, cur, i, need, Fuel(S))
         IN  IF c = HANG THEN HANG ELSE sidx_ge_from(S, need, i - 1, c)

\* sidx_ge whose descent ends at level 1: for (int i=SKLVL-1;i>=1;i--)
RECURSIVE sidx_ge_from_upper(_, _, _, _)
sidx_ge_from_upper(S, need, i, cur) ==
    IF i < 1 THEN sidx_fwd(S, cur, 0)
    ELSE LET c == sidx_walk_ge(S, cur, i, need, Fuel(S))
         IN  IF c = HANG THEN HANG ELSE sidx_ge_from_upper(S, need, i - 1, c)

sidx_ge_upper_levels(S, need) == sidx_ge_from_upper(S, need, SKLVL - 1, NULL)

\* the first node with size >= need, NULL if none
sidx_ge(S, need) == sidx_ge_from(S, need, SKLVL - 1, NULL)

\* while (p){ cur=p; p=p->snext[i]; }  -> cur
RECURSIVE sidx_walk_end(_, _, _, _)
sidx_walk_end(S, cur, i, fuel) ==
    LET p == sidx_fwd(S, cur, i)
    IN  IF p # NULL
        THEN IF fuel = 0 THEN HANG ELSE sidx_walk_end(S, p, i, fuel - 1)
        ELSE cur

RECURSIVE sidx_max_from(_, _, _)
sidx_max_from(S, i, cur) ==
    IF i < 0 THEN cur
    ELSE LET c == sidx_walk_end(S, cur, i, Fuel(S))
         IN  IF c = HANG THEN HANG ELSE sidx_max_from(S, i - 1, c)

\* sidx_max that stops at the first node of level 0
sidx_max_lowest(S) == S.sidx[0]

\* the largest node, NULL if the index is empty
sidx_max(S) == sidx_max_from(S, SKLVL - 1, NULL)

(* ------------------------------------------------------------------ *)
(* Bootstrap, split, coalesce                                          *)
(* ------------------------------------------------------------------ *)
FreeHdr(size) == [sz |-> size, anext |-> NULL, aprev |-> NULL, snext |-> NoSnext,
                  lvl |-> 1, magic |-> MAGIC_F, is_free |-> 1]

\* the arena becomes one free block, the only node of the address list and
\* of the index; rover = b; heap0_inited = 1;
heap_bootstrap(S) ==
    IF S.inited THEN S
    ELSE [sidx_insert([S EXCEPT !.mem = (heap0 :> FreeHdr(HEAP_SIZE - HDRSZ)),
                                !.sidx = NoSnext,
                                !.alist_head = heap0],
                      heap0)
             EXCEPT !.rover = heap0, !.inited = TRUE]

\* the header smt writes at rem, and blk->sz = need
smt_cut(S, blk, need, rem, tail) ==
    [S EXCEPT !.mem = (rem :> FreeHdr(tail)) @@ [S.mem EXCEPT ![blk].sz = need]]

\* smt that splits whenever a header fits behind the request, without
\* asking for MIN_TAIL bytes of payload behind it
smt_any_tail(S, blk, need) ==
    IF HDRSZ + S.mem[blk].sz >= HDRSZ + need + HDRSZ
    THEN [S   |-> smt_cut(S, blk, need, blk + HDRSZ + need,
                          HDRSZ + S.mem[blk].sz - (HDRSZ + need) - HDRSZ),
          rem |-> blk + HDRSZ + need]
    ELSE [S |-> S, rem |-> NULL]

\* returns the state after the split and the remainder (NULL if none)
smt(S, blk, need) ==
    IF HDRSZ + S.mem[blk].sz >= HDRSZ + need + HDRSZ + MIN_TAIL
    THEN [S   |-> smt_cut(S, blk, need, blk + HDRSZ + need,
                          HDRSZ + S.mem[blk].sz - (HDRSZ + need) - HDRSZ),
          rem |-> blk + HDRSZ + need]
    ELSE [S |-> S, rem |-> NULL]

\* if (c) sidx_remove_exact(x);
cola_remove(S, c, x) == IF c THEN sidx_remove_exact(S, x) ELSE S

\* a->anext = x->anext;
cola_skip(S, a, x) == [S EXCEPT !.mem[a].anext = S.mem[x].anext]

\* if (x->anext) x->anext->aprev = a;
cola_back(S, a, x) ==
    IF S.mem[x].anext # NULL THEN [S EXCEPT !.mem[S.mem[x].anext].aprev = a] ELSE S

\* a->sz += HDRSZ + x->sz; if (rover == x || rover == a) rover = a;
cola_grow(S, a, x) ==
    [S EXCEPT !.mem[a].sz = S.mem[a].sz + HDRSZ + S.mem[x].sz,
              !.rover = IF S.rover = x \/ S.rover = a THEN a ELSE S.rover]

\* if (c): the block a takes in its successor x of the address list
cola_merge(S, c, a, x) ==
    IF c THEN cola_grow(cola_back(cola_skip(S, a, x), a, x), a, x) ELSE S

\* the three removals from the index, in the order of the code
cola_unindexed(S, b0, p, n, merge_prev, merge_next) ==
    cola_remove(sidx_remove_exact(cola_remove(S, merge_prev, p), b0), merge_next, n)

\* the merges and the insertion of the merged block b, on the state U the
\* removals left
cola_merged(U, b0, p, n, merge_prev, merge_next, b) ==
    IF U.hang THEN U
    ELSE sidx_insert(cola_merge(cola_merge(U, merge_prev, p, b0), merge_next, b, n), b)

\* done: if (!alist_head) rover = NULL;
cola_done(S) ==
    IF S.hang THEN S
    ELSE IF S.alist_head = NULL THEN [S EXCEPT !.rover = NULL] ELSE S

\* cola once p, n, merge_prev and merge_next are known
cola_with(S, b0, p, n, merge_prev, merge_next) ==
    IF ~merge_prev /\ ~merge_next THEN cola_done(S)
    ELSE cola_done(cola_merged(cola_unindexed(S, b0, p, n, merge_prev, merge_next),
                               b0, p, n, merge_prev, merge_next,
                               IF merge_prev THEN p ELSE b0))

cola(S, b0) ==
    IF S.hang THEN S
    ELSE cola_with(S, b0, S.mem[b0].aprev, S.mem[b0].anext,
                   S.mem[b0].aprev # NULL /\ adjacent(S, S.mem[b0].aprev, b0),
                   S.mem[b0].anext # NULL /\ adjacent(S, b0, S.mem[b0].anext))

(* ------------------------------------------------------------------ *)
(* Main-arena allocation entries.  Each returns [S, ret]: the state    *)
(* when the call returns and the pointer returned.                     *)
(* ------------------------------------------------------------------ *)
Hung(S) == [S |-> [S EXCEPT !.hang = TRUE], ret |-> NULL]

\* current_strategy = tag;
tagged(S, tag) == [S EXCEPT !.strategy = tag]

\* alu(cur); sidx_remove_exact(cur);
unlinked(S, cur) == sidx_remove_exact(alu(S, cur), cur)

\* if (rem){ alb(prev, next, rem); sidx_insert(rem); }  on sp = smt(...)
relinked(sp, prev, next) ==
    IF sp.rem # NULL THEN sidx_insert(alb(sp.S, prev, next, sp.rem), sp.rem)
    ELSE sp.S

\* cur->is_free = 0; cur->magic = MAGIC_A; return (char*)cur + HDRSZ;
\* S is the state the scan ran in, T the state the list surgery left
taken(S, T, cur) ==
    IF T.hang THEN Hung(S)
    ELSE [S   |-> [T EXCEPT !.mem[cur].is_free = 0, !.mem[cur].magic = MAGIC_A],
          ret |-> cur + HDRSZ]

\* for (cur = alist_head; cur; cur = cur->anext) if (cur->sz >= size) ...
RECURSIVE first_fit_scan(_, _, _, _)
first_fit_scan(S, cur, size, fuel) ==
    IF cur = NULL THEN NULL
    ELSE IF S.mem[cur].sz >= size THEN cur
    ELSE IF fuel = 0 THEN HANG
    ELSE first_fit_scan(S, S.mem[cur].anext, size, fuel - 1)

\* rover = rem, or rover = next ? next : alist_head
first_fit_rover(S, rem, next) ==
    IF S.hang THEN S
    ELSE [S EXCEPT !.rover = IF rem # NULL THEN rem
                             ELSE IF next # NULL THEN next ELSE S.alist_head]

\* the body of the if inside the for loop, up to the rover, on sp = smt(...)
first_fit_split(sp, prev, next) ==
    first_fit_rover(relinked(sp, prev, next), sp.rem, next)

\* what malloc_first_fit does with the block cur its scan stopped at
first_fit_take(S, cur, size) ==
    IF cur = HANG THEN Hung(S)
    ELSE IF cur = NULL THEN [S |-> S, ret |-> NULL]
    ELSE taken(S, first_fit_split(smt(unlinked(S, cur), cur, size),
                                  S.mem[cur].aprev, S.mem[cur].anext), cur)

\* malloc_first_fit from its for loop on
first_fit_run(S, size) ==
    first_fit_take(S, first_fit_scan(S, S.alist_head, size, Fuel(S)), size)

malloc_first_fit(S0, size) ==
    IF size = 0 THEN [S |-> S0, ret |-> NULL]
    ELSE first_fit_run(tagged(heap_bootstrap(S0), ALLOC_STRATEGY_FIRST), size)

\* do{ if (cur->sz >= size) ...; cur = cur->anext ? cur->anext : alist_head; }
\* while (cur && cur != start);
RECURSIVE next_fit_scan(_, _, _, _, _)
next_fit_scan(S, start, cur, size, fuel) ==
    IF S.mem[cur].sz >= size THEN cur
    ELSE LET nx == IF S.mem[cur].anext # NULL THEN S.mem[cur].anext ELSE S.alist_head
         IN  IF nx = NULL \/ nx = start THEN NULL
             ELSE IF fuel = 0 THEN HANG
             ELSE next_fit_scan(S, start, nx, size, fuel - 1)

\* rover = rem, or rover = alist_head ? (next ? next : alist_head) : NULL
next_fit_rover(S, rem, next) ==
    IF S.hang THEN S
    ELSE [S EXCEPT !.rover = IF rem # NULL THEN rem
                             ELSE IF S.alist_head # NULL
                             THEN (IF next # NULL THEN next ELSE S.alist_head)
                             ELSE NULL]

\* if (!alist_head) rover = NULL;
next_fit_clamp(S) ==
    IF S.hang THEN S
    ELSE IF S.alist_head = NULL THEN [S EXCEPT !.rover = NULL] ELSE S

\* the body of the if inside the do loop, up to the clamp, on sp = smt(...)
next_fit_split(sp, prev, next) ==
    next_fit_clamp(next_fit_rover(relinked(sp, prev, next), sp.rem, next))

\* what malloc_next_fit does with the block cur its scan stopped at
next_fit_take(S, cur, size) ==
    IF cur = HANG THEN Hung(S)
    ELSE IF cur = NULL THEN [S |-> S, ret |-> NULL]
    ELSE taken(S, next_fit_split(smt(unlinked(S, cur), cur, size),
                                 S.mem[cur].aprev, S.mem[cur].anext), cur)

\* malloc_next_fit from "start = rover" on
next_fit_run(S, size) ==
    next_fit_take(S, next_fit_scan(S, S.rover, S.rover, size, Fuel(S)), size)

\* if (!alist_head){ rover = NULL; return NULL; }  if (!rover) rover = alist_head;
next_fit_start(S, size) ==
    IF S.alist_head = NULL THEN [S |-> [S EXCEPT !.rover = NULL], ret |-> NULL]
    ELSE next_fit_run(IF S.rover = NULL THEN [S EXCEPT !.rover = S.alist_head] ELSE S,
                      size)

malloc_next_fit(S0, size) ==
    IF size = 0 THEN [S |-> S0, ret |-> NULL]
    ELSE next_fit_start(tagged(heap_bootstrap(S0), ALLOC_STRATEGY_NEXT), size)

\* the part malloc_best_fit and malloc_worst_fit share after selection
take_indexed(S, blk, size) ==
    taken(S, relinked(smt(unlinked(S, blk), blk, size),
                      S.mem[blk].aprev, S.mem[blk].anext), blk)

\* what malloc_best_fit does with the node best that sidx_ge returned
best_fit_take(S, best, size) ==
    IF best = HANG THEN Hung(S)
    ELSE IF best = NULL THEN [S |-> S, ret |-> NULL]
    ELSE take_indexed(S, best, size)

\* malloc_best_fit from sidx_ge on
best_fit_run(S, size) == best_fit_take(S, sidx_ge(S, size), size)

malloc_best_fit(S0, size) ==
    IF size = 0 THEN [S |-> S0, ret |-> NULL]
    ELSE best_fit_run(tagged(heap_bootstrap(S0), ALLOC_STRATEGY_BEST), size)

\* what malloc_worst_fit does with the node w that sidx_max returned
worst_fit_take(S, w, size) ==
    IF w = HANG THEN Hung(S)
    ELSE IF w = NULL \/ S.mem[w].sz < size THEN [S |-> S, ret |-> NULL]
    ELSE take_indexed(S, w, size)

\* malloc_worst_fit from sidx_max on
worst_fit_run(S, size) == worst_fit_take(S, sidx_max(S), size)

malloc_worst_fit(S0, size) ==
    IF size = 0 THEN [S |-> S0, ret |-> NULL]
    ELSE worst_fit_run(tagged(heap_bootstrap(S0), ALLOC_STRATEGY_WORST), size)

MainEntries == {ALLOC_STRATEGY_FIRST, ALLOC_STRATEGY_NEXT,
                ALLOC_STRATEGY_BEST, ALLOC_STRATEGY_WORST}

\* the call of the main-arena entry of strategy e
CallMain(e, S, n) ==
    CASE e = ALLOC_STRATEGY_FIRST -> malloc_first_fit(S, n)
      [] e = ALLOC_STRATEGY_NEXT  -> malloc_next_fit(S, n)
      [] e = ALLOC_STRATEGY_BEST  -> malloc_best_fit(S, n)
      [] e = ALLOC_STRATEGY_WORST -> malloc_worst_fit(S, n)

(* ------------------------------------------------------------------ *)
(* Buddy arena                                                         *)
(* ------------------------------------------------------------------ *)
\* bmem holds the bytes of the buddy arena that are not zero, by address
\* (mmap hands the arena out zero-filled).  A bud_t lies in it as on LP64,
\* little-endian: sz at 0, next at 8, prev at 16, magic at 24, order at 28,
\* is_free at 29.  Two headers less than BUDHDR apart share bytes.
\* fault: a call made a load or a store outside the mapping of the arena or
\* past the end of bfl[]; the process is killed and the call does not return.
CurB == [bmem |-> bmem, bfl |-> bfl, inited |-> b_inited, fault |-> FALSE]

\* a value of 2^31 or more: no address of an arena and no size of a block
WILD == -2

\* a magic that is neither MAGIC_F nor MAGIC_A nor zero
MAGIC_X == "????????"

\* the n bytes from address a on, as a function on 0..n-1
BytesAt(B, a, n) ==
    [i \in 0..(n - 1) |-> IF a + i \in DOMAIN B.bmem THEN B.bmem[a + i] ELSE 0]

\* the bytes bs stored from address a on
Stored(B, a, bs) ==
    [B EXCEPT !.bmem =
        [x \in {y \in DOMAIN B.bmem \cup {a + i : i \in DOMAIN bs} :
                    IF y - a \in DOMAIN bs THEN bs[y - a] # 0 ELSE TRUE}
            |-> IF x - a \in DOMAIN bs THEN bs[x - a] ELSE B.bmem[x]]]

\* the upper 32 bits of the addresses of the arena: mmap places it at
\* ARENA_HI * 2^32 + b_arena, so that a pointer into it has bytes 4 and 5
\* that are not zero
ARENA_HI == 32598

\* the n bytes of the value hi * 2^32 + v, least significant first
\* (0 <= v < 2^31)
LittleEndian(v, n, hi) ==
    [i \in 0..(n - 1) |->
        IF i = 0 THEN v % 256
        ELSE IF i = 1 THEN (v \div 256) % 256
        ELSE IF i = 2 THEN (v \div 65536) % 256
        ELSE IF i = 3 THEN (v \div 16777216) % 256
        ELSE IF i = 4 THEN hi % 256
        ELSE IF i = 5 THEN (hi \div 256) % 256
        ELSE 0]

\* the lower 32 bits v of the value of the bytes bs, least significant
\* first, when that value is 0 or hi * 2^32 + v with v < 2^31; WILD when
\* it is any other value
ValueOf(bs, hi) ==
    IF \A i \in DOMAIN bs : bs[i] = 0 THEN 0
    ELSE IF 3 \in DOMAIN bs
    THEN IF bs[3] < 128
            /\ bs = LittleEndian(bs[0] + 256 * bs[1] + 65536 * bs[2]
                                    + 16777216 * bs[3], 8, hi)
         THEN bs[0] + 256 * bs[1] + 65536 * bs[2] + 16777216 * bs[3]
         ELSE WILD
    ELSE bs[0]

\* the four bytes of a magic: 0xFEEDFACE, 0xDEADBEEF, 0
MagicBytes(m) ==
    IF m = MAGIC_F THEN [i \in 0..3 |-> <<206, 250, 237, 254>>[i + 1]]
    ELSE IF m = MAGIC_A THEN [i \in 0..3 |-> <<239, 190, 173, 222>>[i + 1]]
    ELSE [i \in 0..3 |-> 0]

\* the bud_t read at address a
BudAt(B, a) ==
    [sz      |-> ValueOf(BytesAt(B, a, 8), 0),
     next    |-> ValueOf(BytesAt(B, a + 8, 8), ARENA_HI),
     prev    |-> ValueOf(BytesAt(B, a + 16, 8), ARENA_HI),
     magic   |-> IF BytesAt(B, a + 24, 4) = MagicBytes(MAGIC_F) THEN MAGIC_F
                 ELSE IF BytesAt(B, a + 24, 4) = MagicBytes(MAGIC_A) THEN MAGIC_A
                 ELSE IF BytesAt(B, a + 24, 4) = MagicBytes(MAGIC_0) THEN MAGIC_0
                 ELSE MAGIC_X,
     order   |-> ValueOf(BytesAt(B, a + 28, 1), 0),
     is_free |-> ValueOf(BytesAt(B, a + 29, 1), 0)]

\* b->f = v for the field f of bud_t; a pointer v is NULL or an address of
\* the arena
Put(B, b, f, v) ==
    CASE f = "sz"      -> Stored(B, b, LittleEndian(v, 8, 0))
      [] f = "next"    ->
            Stored(B, b + 8, LittleEndian(v, 8, IF v = NULL THEN 0 ELSE ARENA_HI))
      [] f = "prev"    ->
            Stored(B, b + 16, LittleEndian(v, 8, IF v = NULL THEN 0 ELSE ARENA_HI))
      [] f = "magic"   -> Stored(B, b + 24, MagicBytes(v))
      [] f = "order"   -> Stored(B, b + 28, LittleEndian(v, 1, 0))
      [] f = "is_free" -> Stored(B, b + 29, LittleEndian(v, 1, 0))

\* the stores ws = << <<b, f, v>>, ... >> made one after the other
RECURSIVE Puts(_, _)
Puts(B, ws) ==
    IF Len(ws) = 0 THEN B
    ELSE Puts(Put(B, ws[1][1], ws[1][2], ws[1][3]), Tail(ws))

\* a bud_t at p lies inside the mapping of the arena
Mapped(p) == p >= b_arena /\ p + BUDHDR <= b_arena + HEAP_SIZE

\* the addresses at which a header with magic MAGIC_F or MAGIC_A lies
BudHeaders(B) ==
    {a \in {x - 24 : x \in DOMAIN B.bmem} : BudAt(B, a).magic \in {MAGIC_F, MAGIC_A}}

RECURSIVE Pow2(_)
Pow2(k) == IF k = 0 THEN 1 ELSE 2 * Pow2(k - 1)

\* a ^ b on unsigned integers
RECURSIVE Xor(_, _)
Xor(a, b) ==
    IF a = 0 THEN b
    ELSE IF b = 0 THEN a
    ELSE 2 * Xor(a \div 2, b \div 2) + (IF (a % 2) = (b % 2) THEN 0 ELSE 1)

b_init(B) ==
    IF B.inited THEN B
    ELSE [Puts([B EXCEPT !.bmem = << >>],
               <<<<b_arena, "sz", Pow2(MAXORD - 1)>>,
                 <<b_arena, "order", MAXORD - 1>>,
                 <<b_arena, "magic", MAGIC_F>>, <<b_arena, "is_free", 1>>,
                 <<b_arena, "prev", NULL>>, <<b_arena, "next", NULL>>>>)
             EXCEPT !.bfl = [i \in 0..(MAXORD - 1) |->
                                IF i = MAXORD - 1 THEN b_arena ELSE NULL],
                    !.inited = TRUE]

\* while (k < MAXORD && !bfl[k]) k++;
RECURSIVE bgb_find(_, _)
bgb_find(B, k) == IF k < MAXORD /\ B.bfl[k] = NULL THEN bgb_find(B, k + 1) ELSE k

\* bud_t *b = bfl[k]; bfl[k] = b->next; if (b->next) b->next->prev = NULL;
\* b->next = b->prev = NULL;
bgb_pop(B, b, k) ==
    IF ~Mapped(b) THEN [B EXCEPT !.fault = TRUE]
    ELSE IF BudAt(B, b).next = NULL
    THEN Puts([B EXCEPT !.bfl[k] = NULL],
              <<<<b, "prev", NULL>>, <<b, "next", NULL>>>>)
    ELSE IF ~Mapped(BudAt(B, b).next) THEN [B EXCEPT !.fault = TRUE]
    ELSE Puts([B EXCEPT !.bfl[k] = BudAt(B, b).next],
              <<<<BudAt(B, b).next, "prev", NULL>>,
                <<b, "prev", NULL>>, <<b, "next", NULL>>>>)

\* one turn of the while loop of bgb, k already lowered: L is halved and R,
\* its right half, is pushed on bfl[k]
\*   L->sz = R->sz = half;           L->order = R->order = (uint8_t)k;
\*   L->magic = R->magic = MAGIC_F;  L->is_free = R->is_free = 1;
\*   R->next = bfl[k]; R->prev = NULL;
\*   if (bfl[k]) bfl[k]->prev = R;   bfl[k] = R;
bgb_turn(B, L, R, k) ==
    IF ~Mapped(R) THEN [B EXCEPT !.fault = TRUE]
    ELSE [Puts(B, <<<<R, "sz", Pow2(k)>>, <<L, "sz", Pow2(k)>>,
                    <<R, "order", k>>, <<L, "order", k>>,
                    <<R, "magic", MAGIC_F>>, <<L, "magic", MAGIC_F>>,
                    <<R, "is_free", 1>>, <<L, "is_free", 1>>,
                    <<R, "next", B.bfl[k]>>, <<R, "prev", NULL>>>>
                  \o (IF B.bfl[k] # NULL
                      THEN <<<<B.bfl[k], "prev", R>>>> ELSE << >>))
             EXCEPT !.bfl[k] = R]

\* while (k > order){ k--; ... }  b->is_free = 0; b->magic = MAGIC_A;
RECURSIVE bgb_split(_, _, _, _)
bgb_split(B, b, k0, order) ==
    IF B.fault THEN B
    ELSE IF k0 <= order
    THEN Puts(B, <<<<b, "is_free", 0>>, <<b, "magic", MAGIC_A>>>>)
    ELSE bgb_split(bgb_turn(B, b, b + Pow2(k0 - 1), k0 - 1), b, k0 - 1, order)

\* bgb once its first loop has stopped at k
bgb_from(B, k, order) ==
    IF k >= MAXORD THEN [B |-> B, b |-> NULL]
    ELSE [B |-> bgb_split(bgb_pop(B, B.bfl[k], k), B.bfl[k], k, order),
          b |-> B.bfl[k]]

\* returns [B, b]: the state afterwards and the block (NULL if none)
bgb(B, order) == bgb_from(B, bgb_find(B, order), order)

b_buddy(B, b) ==
    LET sz   == Pow2(BudAt(B, b).order)
        off  == b - b_arena
        boff == Xor(off, sz)
    IN  IF boff < HEAP_SIZE THEN b_arena + boff ELSE NULL

\* if (x->prev) x->prev->next = x->next; else bfl[x->order] = x->next;
\* (a link x->next that leaves the arena is followed by the statement after
\* this one: the fault is the same)
bfm_unlink_prev(B, x) ==
    IF B.fault THEN B
    ELSE IF BudAt(B, x).prev # NULL
    THEN IF Mapped(BudAt(B, x).prev)
         THEN Stored(B, BudAt(B, x).prev + 8, BytesAt(B, x + 8, 8))
         ELSE [B EXCEPT !.fault = TRUE]
    ELSE IF BudAt(B, x).order < MAXORD
            /\ (BudAt(B, x).next = NULL \/ Mapped(BudAt(B, x).next))
    THEN [B EXCEPT !.bfl[BudAt(B, x).order] = BudAt(B, x).next]
    ELSE [B EXCEPT !.fault = TRUE]

\* if (x->next) x->next->prev = x->prev;
bfm_unlink_next(B, x) ==
    IF B.fault \/ BudAt(B, x).next = NULL THEN B
    ELSE IF Mapped(BudAt(B, x).next)
    THEN Stored(B, BudAt(B, x).next + 16, BytesAt(B, x + 16, 8))
    ELSE [B EXCEPT !.fault = TRUE]

\* b->next = bfl[b->order]; b->prev = NULL;
\* if (bfl[b->order]) bfl[b->order]->prev = b;  bfl[b->order] = b;
bfm_push(B, b) ==
    IF B.fault THEN B
    ELSE IF BudAt(B, b).order >= MAXORD THEN [B EXCEPT !.fault = TRUE]
    ELSE [Puts(B, <<<<b, "next", B.bfl[BudAt(B, b).order]>>, <<b, "prev", NULL>>>>
                  \o (IF B.bfl[BudAt(B, b).order] # NULL
                      THEN <<<<B.bfl[BudAt(B, b).order], "prev", b>>>>
                      ELSE << >>))
             EXCEPT !.bfl[BudAt(B, b).order] = b]

\* b->order++; b->sz <<= 1; b->prev = b->next = NULL;
bfm_grown(B, nb) ==
    IF B.fault THEN B
    ELSE Puts(Stored(Put(B, nb, "order", (BudAt(B, nb).order + 1) % 256),
                     nb,
                     [i \in 0..7 |->
                         ((2 * BytesAt(B, nb, 8)[i]) % 256)
                         + (IF i > 0 /\ BytesAt(B, nb, 8)[i - 1] >= 128
                            THEN 1 ELSE 0)]),
              <<<<nb, "next", NULL>>, <<nb, "prev", NULL>>>>)

\* one turn of the while loop of bfm: m and b leave their lists and the
\* lower of the two, nb, grows by one order
bfm_join(B, b, m, nb) ==
    bfm_grown(bfm_unlink_next(bfm_unlink_prev(
                  bfm_unlink_next(bfm_unlink_prev(B, m), m), b), b), nb)

\* if (!m || !m->is_free || m->order != b->order) break;
bfm_stops(B, b, m) ==
    m = NULL \/ BudAt(B, m).is_free = 0 \/ BudAt(B, m).order # BudAt(B, b).order

\* the lower address of the pair
bfm_lower(b, m) == IF m < b THEN m ELSE b

\* while (b->order < MAXORD-1){ merge b with its buddy or break }
RECURSIVE bfm_merge(_, _)
bfm_merge(B, b) ==
    IF B.fault THEN B
    ELSE IF ~(BudAt(B, b).order < MAXORD - 1) THEN B
    ELSE IF b_buddy(B, b) # NULL /\ ~Mapped(b_buddy(B, b))
    THEN [B EXCEPT !.fault = TRUE]
    ELSE IF bfm_stops(B, b, b_buddy(B, b)) THEN B
    ELSE bfm_merge(bfm_push(bfm_join(B, b, b_buddy(B, b), bfm_lower(b, b_buddy(B, b))),
                            bfm_lower(b, b_buddy(B, b))),
                   bfm_lower(b, b_buddy(B, b)))

\* the number of turns the while loop of bfm makes from (B, b)
RECURSIVE bfm_turns(_, _)
bfm_turns(B, b) ==
    IF B.fault THEN 0
    ELSE IF ~(BudAt(B, b).order < MAXORD - 1) THEN 0
    ELSE IF b_buddy(B, b) # NULL /\ ~Mapped(b_buddy(B, b)) THEN 0
    ELSE IF bfm_stops(B, b, b_buddy(B, b)) THEN 0
    ELSE 1 + bfm_turns(bfm_push(bfm_join(B, b, b_buddy(B, b),
                                         bfm_lower(b, b_buddy(B, b))),
                                bfm_lower(b, b_buddy(B, b))),
                       bfm_lower(b, b_buddy(B, b)))

\* bfm without its while loop: the block is pushed and never merged
bfm_no_merge(B, b) ==
    bfm_push(Puts(B, <<<<b, "is_free", 1>>, <<b, "magic", MAGIC_F>>>>), b)

\* b->is_free = 1; b->magic = MAGIC_F; and the push on bfl[b->order]
bfm_freed(B, b) ==
    bfm_push(Puts(B, <<<<b, "is_free", 1>>, <<b, "magic", MAGIC_F>>>>), b)

bfm(B, b) == bfm_merge(bfm_freed(B, b), b)

\* a < b between two size_t values
size_lt(a, b) == IF (a < 0) = (b < 0) THEN a < b ELSE b < 0

\* while (blk < need && order < MAXORD){ blk <<= 1; order++; }
RECURSIVE buddy_order(_, _, _)
buddy_order(need, blk, order) ==
    IF size_lt(blk, need) /\ order < MAXORD THEN buddy_order(need, 2 * blk, order + 1)
    ELSE order

\* what malloc_buddy_alloc returns once bgb returned r; refused is the tag
\* a refused call leaves
buddy_result(B, r, refused) ==
    IF r.B.fault THEN [B |-> r.B, ret |-> NULL, strategy |-> ALLOC_STRATEGY_BUDDY]
    ELSE IF r.b = NULL THEN [B |-> B, ret |-> NULL, strategy |-> refused]
    ELSE [B |-> r.B, ret |-> r.b + BUDHDR, strategy |-> ALLOC_STRATEGY_BUDDY]

\* if (order >= MAXORD) return NULL; bud_t *b = bgb(order); ...
buddy_request(B, order, refused) ==
    IF order >= MAXORD THEN [B |-> B, ret |-> NULL, strategy |-> refused]
    ELSE buddy_result(B, bgb(B, order), refused)

\* malloc_buddy_alloc with the tag written only when a block is returned
malloc_buddy_alloc_tag_on_success(B0, strategy, size) ==
    IF size = 0 THEN [B |-> B0, ret |-> NULL, strategy |-> strategy]
    ELSE buddy_request(b_init(B0), buddy_order(size + BUDHDR, 1, 0), strategy)

\* returns [B, ret, strategy]
malloc_buddy_alloc(B0, strategy, size) ==
    IF size = 0 THEN [B |-> B0, ret |-> NULL, strategy |-> strategy]
    ELSE buddy_request(b_init(B0), buddy_order(size + BUDHDR, 1, 0),
                       ALLOC_STRATEGY_BUDDY)

(* ------------------------------------------------------------------ *)
(* my_free                                                             *)
(* ------------------------------------------------------------------ *)
\* a magic check that every header passes
MagicAt_always_allocated(S, a) == MAGIC_A

\* magic of the free_blk_t at address a; memory never written reads as zeros
MagicAt(S, a) == IF a \in DOMAIN S.mem THEN S.mem[a].magic ELSE MAGIC_0

\* while (cur && cur < blk){ prv = cur; cur = cur->anext; }  -> <<prv, cur>>
RECURSIVE free_scan(_, _, _, _, _)
free_scan(S, prv, cur, blk, fuel) ==
    IF cur # NULL /\ cur < blk
    THEN IF fuel = 0 THEN <<HANG, HANG>>
         ELSE free_scan(S, cur, S.mem[cur].anext, blk, fuel - 1)
    ELSE <<prv, cur>>

\* if (!alist_head){ alist_head = blk; ... } else { ...; alb(prv, cur, blk); }
\* pos = <<prv, cur>> is where the while loop stopped
free_linked(S, blk, pos) ==
    IF S.alist_head = NULL
    THEN [S EXCEPT !.alist_head = blk,
                   !.mem[blk].aprev = NULL,
                   !.mem[blk].anext = NULL]
    ELSE alb(S, pos[1], pos[2], blk)

\* blk->is_free = 1; blk->magic = MAGIC_F; snext[] = NULL; blk->lvl = 1;
free_marked(S, blk) ==
    [S EXCEPT !.mem[blk].is_free = 1,
              !.mem[blk].magic = MAGIC_F,
              !.mem[blk].snext = NoSnext,
              !.mem[blk].lvl = 1]

\* the call returns in the state T, or never returns
free_done(S, T) == IF T.hang THEN [S EXCEPT !.hang = TRUE] ELSE T

\* my_free from "Insert by address" on
free_block(S, blk, pos) ==
    IF S.alist_head # NULL /\ pos[1] = HANG THEN [S EXCEPT !.hang = TRUE]
    ELSE free_done(S, cola(sidx_insert(free_marked(free_linked(S, blk, pos), blk),
                                       blk), blk))

\* the main-arena half of my_free
free_main(S, ptr) ==
    IF ~S.inited THEN S
    ELSE IF MagicAt(S, ptr - HDRSZ) # MAGIC_A THEN S
    ELSE free_block(S, ptr - HDRSZ,
                    free_scan(S, NULL, S.alist_head, ptr - HDRSZ, Fuel(S)))

\* returns [S, B]
my_free(S, B, ptr) ==
    IF ptr = NULL THEN [S |-> S, B |-> B]
    ELSE IF B.inited /\ ptr >= b_arena /\ ptr < b_arena + HEAP_SIZE
    THEN IF BudAt(B, ptr - BUDHDR).magic # MAGIC_A THEN [S |-> S, B |-> B]
         ELSE [S |-> S, B |-> bfm(B, ptr - BUDHDR)]
    ELSE [S |-> free_main(S, ptr), B |-> B]

\* tag is the value of current_strategy when the query is made
allocator_current_strategy(tag) ==
    IF tag >= ALLOC_STRATEGY_FIRST /\ tag <= ALLOC_STRATEGY_BUDDY
    THEN tag
    ELSE ALLOC_STRATEGY_FIRST

(* ------------------------------------------------------------------ *)
(* Headers no pointer leads to                                         *)
(* ------------------------------------------------------------------ *)
\* the blocks of the main arena: from the arena start, each block ends where
\* the next begins
RECURSIVE blocks_from(_, _, _)
blocks_from(S, a, fuel) ==
    IF a >= heap0_end \/ a \notin DOMAIN S.mem \/ fuel = 0 THEN {}
    ELSE {a} \cup blocks_from(S, a + HDRSZ + S.mem[a].sz, fuel - 1)

Blocks(S) == IF S.inited THEN blocks_from(S, heap0, Fuel(S)) ELSE {}

\* Between two calls the code reaches a header only from alist_head, rover
\* and sidx.head[] along anext, aprev and snext[], or by address in
\* my_free, smt and heap_bootstrap.  smt and heap_bootstrap write every
\* field of the header they address.  my_free reads magic and returns unless
\* it is MAGIC_A; otherwise it writes anext, aprev, snext[] and lvl before
\* it reads them.  So in a header that no pointer leads to, these four
\* fields are never read again as they stand, and if its magic is not
\* MAGIC_A nothing but that fact is ever read of it.  A returning call
\* leaves such a header with the four fields cleared, and forgets it when it
\* is not allocated and not a block of the arena any more (a header inside a
\* merged block): my_free reads "not MAGIC_A" there either way.  States that
\* differ only in these bytes behave alike.
PointersOf(S, a) ==
    {S.mem[a].anext, S.mem[a].aprev} \cup {S.mem[a].snext[i] : i \in 0..(SKLVL - 1)}

RECURSIVE ReachedFrom(_, _)
ReachedFrom(S, X) ==
    LET Y == (X \cup UNION {PointersOf(S, a) : a \in X}) \ {NULL}
    IN  IF Y = X THEN X ELSE ReachedFrom(S, Y)

Referenced(S) ==
    ReachedFrom(S, ({S.alist_head, S.rover} \cup {S.sidx[i] : i \in 0..(SKLVL - 1)}) \ {NULL})

Settled(S) ==
    LET ref  == Referenced(S)
        kept == {a \in DOMAIN S.mem :
                    a \in ref \/ S.mem[a].magic = MAGIC_A \/ a \in Blocks(S)}
    IN  [a \in kept |->
            IF a \in ref THEN S.mem[a]
            ELSE [S.mem[a] EXCEPT !.anext = NULL, !.aprev = NULL,
                                  !.snext = NoSnext, !.lvl = 1]]

(* ------------------------------------------------------------------ *)
(* The caller: which handles it holds                                  *)
(* ------------------------------------------------------------------ *)
Returned(lv, p, n) ==
    IF p = NULL THEN lv
    ELSE IF p \in DOMAIN lv THEN [lv EXCEPT ![p] = [n |-> n, cnt |-> @.cnt + 1]]
    ELSE (p :> [n |-> n, cnt |-> 1]) @@ lv

Released(lv, p) ==
    IF p \notin DOMAIN lv THEN lv
    ELSE IF lv[p].cnt > 1 THEN [lv EXCEPT ![p].cnt = @ - 1]
    ELSE [q \in DOMAIN lv \ {p} |-> lv[q]]

InMain(p) == p >= heap0 /\ p < heap0_end
InBuddy(p) == p >= b_arena /\ p < b_arena + HEAP_SIZE

RECURSIVE SumCnt(_, _)
SumCnt(lv, ps) ==
    IF ps = {} THEN 0
    ELSE LET p == CHOOSE q \in ps : TRUE IN lv[p].cnt + SumCnt(lv, ps \ {p})

MainLive == SumCnt(live, {p \in DOMAIN live : InMain(p)})
BuddyLive == SumCnt(live, {p \in DOMAIN live : InBuddy(p)})

\* pointers the caller may pass to my_free: NULL and every address that
\* follows a header the allocator has written (live, freed or never returned)
MainPtrs == {a + HDRSZ : a \in DOMAIN mem}
BuddyPtrs == {a + BUDHDR : a \in BudHeaders(CurB)}

\* the levels rand_lvl() may return during one call: an allocation entry
\* inserts the remainder of smt, and before it the whole arena when it is
\* the first call (heap_bootstrap); my_free inserts the block, then the
\* merged block of cola
LvlPairs == Levels \X Levels
LvlDraws == IF heap0_inited THEN {<<h>> : h \in Levels} ELSE LvlPairs
LvlPairsFlat == LevelsFlat \X LevelsFlat
LvlDrawsFlat == IF heap0_inited THEN {<<h>> : h \in LevelsFlat} ELSE LvlPairsFlat

\* a draw that the call did not consume is fixed to 1, so that each run of
\* the call is enumerated once
Canonical(S) == \A i \in 1..Len(S.lv) : S.lv[i] = 1

(* ------------------------------------------------------------------ *)
(* Init and the actions: one per public entry                          *)
(* ------------------------------------------------------------------ *)
Init ==
    /\ heap0_inited = FALSE
    /\ mem = << >>
    /\ alist_head = NULL
    /\ rover = NULL
    /\ sidx = NoSnext
    /\ current_strategy = 0
    /\ b_inited = FALSE
    /\ bmem = << >>
    /\ bfl = [i \in 0..(MAXORD - 1) |-> NULL]
    /\ live = << >>
    /\ hang = FALSE
    /\ twin = [S |-> [mem |-> << >>, alist_head |-> NULL, rover |-> NULL,
                      sidx |-> NoSnext, inited |-> FALSE, strategy |-> 0,
                      hang |-> FALSE, lv |-> << >>],
               B |-> [bmem |-> << >>, bfl |-> [i \in 0..(MAXORD - 1) |-> NULL],
                      inited |-> FALSE, fault |-> FALSE]]
    /\ same = TRUE

mainvars == <<heap0_inited, mem, alist_head, rover, sidx>>
twinvars == <<twin, same>>
buddyvars == <<b_inited, bmem, bfl>>

\* a main-arena allocation entry returned R = [S, ret], or never returns
AllocMain(R, n) ==
    /\ Canonical(R.S)
    /\ IF R.S.hang
       THEN /\ hang' = TRUE
            /\ UNCHANGED <<mainvars, current_strategy, buddyvars, live>>
       ELSE /\ heap0_inited' = R.S.inited
            /\ mem' = Settled(R.S)
            /\ alist_head' = R.S.alist_head
            /\ rover' = R.S.rover
            /\ sidx' = R.S.sidx
            /\ current_strategy' = R.S.strategy
            /\ live' = Returned(live, R.ret, n)
            /\ UNCHANGED <<buddyvars, hang>>

MallocFirstFit(n, hs) ==
    ~hang /\ AllocMain(malloc_first_fit(At(hs), n), n) /\ UNCHANGED twinvars

MallocNextFit(n, hs) ==
    ~hang /\ AllocMain(malloc_next_fit(At(hs), n), n) /\ UNCHANGED twinvars

MallocBestFit(n, hs) ==
    ~hang /\ AllocMain(malloc_best_fit(At(hs), n), n) /\ UNCHANGED twinvars

MallocWorstFit(n, hs) ==
    ~hang /\ AllocMain(malloc_worst_fit(At(hs), n), n) /\ UNCHANGED twinvars

\* malloc_buddy_alloc returned R = [B, ret, strategy]
AllocBuddy(R, n) ==
    IF R.B.fault
    THEN /\ hang' = TRUE
         /\ UNCHANGED <<mainvars, current_strategy, buddyvars, live>>
    ELSE /\ b_inited' = R.B.inited
         /\ bmem' = R.B.bmem
         /\ bfl' = R.B.bfl
         /\ current_strategy' = R.strategy
         /\ live' = Returned(live, R.ret, n)
         /\ UNCHANGED <<mainvars, hang>>

MallocBuddyAlloc(n) ==
    /\ ~hang
    /\ AllocBuddy(malloc_buddy_alloc(CurB, current_strategy, n), n)
    /\ UNCHANGED twinvars

\* my_free(p) returned in R = [S, B], or never returns
Freed(R, p) ==
    /\ Canonical(R.S)
    /\ IF R.S.hang \/ R.B.fault
       THEN /\ hang' = TRUE
            /\ UNCHANGED <<mainvars, current_strategy, buddyvars, live>>
       ELSE /\ heap0_inited' = R.S.inited
            /\ mem' = Settled(R.S)
            /\ alist_head' = R.S.alist_head
            /\ rover' = R.S.rover
            /\ sidx' = R.S.sidx
            /\ b_inited' = R.B.inited
            /\ bmem' = R.B.bmem
            /\ bfl' = R.B.bfl
            /\ live' = Released(live, p)
            /\ UNCHANGED <<current_strategy, hang>>

MyFree(p, hs) == ~hang /\ Freed(my_free(At(hs), CurB, p), p) /\ UNCHANGED twinvars

\* the four main-arena strategies and my_free
NextMain ==
    \/ \E n \in Sizes, hs \in LvlDraws : MainLive < MaxLive /\ MallocFirstFit(n, hs)
    \/ \E n \in Sizes, hs \in LvlDraws : MainLive < MaxLive /\ MallocNextFit(n, hs)
    \/ \E n \in Sizes, hs \in LvlDraws : MainLive < MaxLive /\ MallocBestFit(n, hs)
    \/ \E n \in Sizes, hs \in LvlDraws : MainLive < MaxLive /\ MallocWorstFit(n, hs)
    \/ \E p \in {NULL} \cup MainPtrs, hs \in LvlPairs : MyFree(p, hs)

SpecMain == Init /\ [][NextMain]_vars

\* the main arena cut into five blocks, three of them handed out at a time
NextList ==
    \/ \E n \in SizesList, hs \in LvlDrawsFlat :
          MainLive < MaxLiveList /\ MallocFirstFit(n, hs)
    \/ \E n \in SizesList, hs \in LvlDrawsFlat :
          MainLive < MaxLiveList /\ MallocNextFit(n, hs)
    \/ \E n \in SizesList, hs \in LvlDrawsFlat :
          MainLive < MaxLiveList /\ MallocBestFit(n, hs)
    \/ \E n \in SizesList, hs \in LvlDrawsFlat :
          MainLive < MaxLiveList /\ MallocWorstFit(n, hs)
    \/ \E p \in {NULL} \cup MainPtrs, hs \in LvlPairsFlat : MyFree(p, hs)

SpecList == Init /\ [][NextList]_vars

\* the buddy allocator and my_free
NextBuddy ==
    \/ \E n \in BuddySizes : BuddyLive < MaxLiveBuddy /\ MallocBuddyAlloc(n)
    \/ \E p \in {NULL} \cup BuddyPtrs : MyFree(p, <<1, 1>>)

SpecBuddy == Init /\ [][NextBuddy]_vars

\* all six entries together
Next ==
    \/ \E n \in SizesAll, hs \in LvlDrawsFlat :
          MainLive + BuddyLive < MaxLiveAll /\ MallocFirstFit(n, hs)
    \/ \E n \in SizesAll, hs \in LvlDrawsFlat :
          MainLive + BuddyLive < MaxLiveAll /\ MallocNextFit(n, hs)
    \/ \E n \in SizesAll, hs \in LvlDrawsFlat :
          MainLive + BuddyLive < MaxLiveAll /\ MallocBestFit(n, hs)
    \/ \E n \in SizesAll, hs \in LvlDrawsFlat :
          MainLive + BuddyLive < MaxLiveAll /\ MallocWorstFit(n, hs)
    \/ \E n \in BuddySizesAll :
          MainLive + BuddyLive < MaxLiveAll /\ MallocBuddyAlloc(n)
    \/ \E p \in {NULL} \cup MainPtrs \cup BuddyPtrs, hs \in LvlPairsFlat : MyFree(p, hs)

Spec == Init /\ [][Next]_vars

(* ------------------------------------------------------------------ *)
(* Two processes that are given the same calls.  The variables of the  *)
(* module hold the allocator of the first, twin the allocator of the   *)
(* second; each call is made in both, the draws of rand_lvl() being    *)
(* chosen for each process on its own.                                 *)
(* ------------------------------------------------------------------ *)
\* the main arena of the second process at a call whose draws are ht
TwinAt(ht) == [twin.S EXCEPT !.lv = ht]

\* the draws of rand_lvl() during one call of the second process
TwinDraws == IF twin.S.inited THEN {<<h>> : h \in Levels} ELSE LvlPairs

\* what the caller gets from a call that ended in R: HANG if it never returns
Outcome(R) == IF R.S.hang THEN HANG ELSE R.ret

\* the main arena the call leaves to the next call of the second process
TwinSettled(T) ==
    IF T.hang THEN [twin.S EXCEPT !.hang = TRUE]
    ELSE [T EXCEPT !.mem = Settled(T), !.lv = << >>]

\* a main-arena allocation entry ended in R1 in the first process and in R2
\* in the second
BothAllocMain(R1, R2, n) ==
    /\ AllocMain(R1, n)
    /\ Canonical(R2.S)
    /\ twin' = [twin EXCEPT !.S = TwinSettled(R2.S)]
    /\ same' = (same /\ Outcome(R1) = Outcome(R2))

\* the entry e of the main arena called with n in both processes
TwinAlloc(e, n, hs, ht) ==
    /\ ~hang /\ ~twin.S.hang
    /\ BothAllocMain(CallMain(e, At(hs), n), CallMain(e, TwinAt(ht), n), n)

\* my_free(p) ended in R1 in the first process and in R2 in the second
BothFreed(R1, R2, p) ==
    /\ Freed(R1, p)
    /\ Canonical(R2.S)
    /\ twin' = [twin EXCEPT !.S = TwinSettled(R2.S),
                            !.B = IF R2.S.hang THEN twin.B ELSE R2.B]
    /\ UNCHANGED same

TwinFree(p, hs, ht) ==
    /\ ~hang /\ ~twin.S.hang
    /\ BothFreed(my_free(At(hs), CurB, p), my_free(TwinAt(ht), twin.B, p), p)

\* the four main-arena strategies and my_free, each called in both
\* processes; malloc_buddy_alloc draws no level and its arena is apart
NextTwin ==
    \/ \E e \in MainEntries, n \in Sizes, hs \in LvlDrawsFlat, ht \in TwinDraws :
          MainLive < MaxLive /\ TwinAlloc(e, n, hs, ht)
    \/ \E p \in {NULL} \cup MainPtrs, hs \in LvlPairsFlat, ht \in LvlPairs :
          TwinFree(p, hs, ht)

SpecTwin == Init /\ [][NextTwin]_vars

(* ------------------------------------------------------------------ *)
(* What a state holds: lists, index levels, blocks                     *)
(* ------------------------------------------------------------------ *)
Range(q) == {q[k] : k \in 1..Len(q)}

\* the nodes met from cur along anext; a walk longer than the number of
\* headers has met a node twice
RECURSIVE alist_from(_, _, _)
alist_from(S, cur, fuel) ==
    IF cur = NULL \/ fuel = 0 THEN << >>
    ELSE <<cur>> \o alist_from(S, S.mem[cur].anext, fuel - 1)

AddrList(S) == alist_from(S, S.alist_head, Fuel(S))

\* the nodes of level i of the size index, from its head
RECURSIVE sidx_from(_, _, _, _)
sidx_from(S, cur, i, fuel) ==
    IF cur = NULL \/ fuel = 0 THEN << >>
    ELSE <<cur>> \o sidx_from(S, S.mem[cur].snext[i], i, fuel - 1)

IndexLevel(S, i) == sidx_from(S, S.sidx[i], i, Fuel(S))

FreeBlocks(S) == {b \in Blocks(S) : S.mem[b].is_free = 1}

\* size and status of every block; an arena not yet bootstrapped counts as
\* the one free block heap_bootstrap makes of it
BlockView(S) ==
    IF S.inited
    THEN [b \in Blocks(S) |-> [sz |-> S.mem[b].sz, is_free |-> S.mem[b].is_free]]
    ELSE (heap0 :> [sz |-> HEAP_SIZE - HDRSZ, is_free |-> 1])

FreeSizes(S) == {BlockView(S)[b].sz : b \in {x \in DOMAIN BlockView(S) : BlockView(S)[x].is_free = 1}}

\* the blocks of the buddy arena, each 2^order bytes long
RECURSIVE bud_blocks_from(_, _, _)
bud_blocks_from(B, a, fuel) ==
    IF a >= b_arena + HEAP_SIZE \/ a \notin BudHeaders(B) \/ fuel = 0 THEN {}
    ELSE IF BudAt(B, a).order >= MAXORD THEN {a}
    ELSE {a} \cup bud_blocks_from(B, a + Pow2(BudAt(B, a).order), fuel - 1)

BudBlocks(B) ==
    IF B.inited THEN bud_blocks_from(B, b_arena, Cardinality(DOMAIN B.bmem) + 1) ELSE {}

BudFreeBlocks(B) == {b \in BudBlocks(B) : BudAt(B, b).is_free = 1}

BudView(B) ==
    IF B.inited
    THEN [b \in BudBlocks(B) |-> [order |-> BudAt(B, b).order, is_free |-> BudAt(B, b).is_free]]
    ELSE (b_arena :> [order |-> MAXORD - 1, is_free |-> 1])

\* the nodes of free list k, from its head
RECURSIVE bfl_from(_, _, _)
bfl_from(B, cur, fuel) ==
    IF cur = NULL \/ ~Mapped(cur) \/ fuel = 0 THEN << >>
    ELSE <<cur>> \o bfl_from(B, BudAt(B, cur).next, fuel - 1)

FreeList(B, k) == bfl_from(B, B.bfl[k], Cardinality(DOMAIN B.bmem) + 1)

\* the state a call leaves, without the levels it did not draw
Obs(S) == [mem |-> S.mem, alist_head |-> S.alist_head, rover |-> S.rover,
           sidx |-> S.sidx, inited |-> S.inited, strategy |-> S.strategy,
           hang |-> S.hang]

Here == At(<<1, 1>>)

\* request sizes the claims try in every reachable state
ProbeSizes == {0, 1, 936, 1960, 4000, HEAP_SIZE - HDRSZ, HEAP_SIZE - HDRSZ + 1}
BuddyProbeSizes == {0, 1, 500, 2000, HEAP_SIZE - BUDHDR, HEAP_SIZE - BUDHDR + 1}

(* ------------------------------------------------------------------ *)
(* C1: payloads of live handles never overlap                          *)
(* ------------------------------------------------------------------ *)
Disjoint(p, n, q, m) == p + n <= q \/ q + m <= p

\* C1: every handle that was returned and not yet freed was returned once
\* since, and its payload [p, p+n) overlaps neither the payload of another
\* live handle nor the payload of a block on a free list (address list,
\* buddy free lists).
C1_LivePayloadsDisjoint ==
    /\ \A p \in DOMAIN live : live[p].cnt = 1
    /\ \A p, q \in DOMAIN live :
          p # q => Disjoint(p, live[p].n, q, live[q].n)
    /\ \A p \in DOMAIN live : \A b \in Range(AddrList(Here)) :
          Disjoint(p, live[p].n, b + HDRSZ, mem[b].sz)
    /\ \A p \in DOMAIN live : \A k \in 0..(MAXORD - 1) : \A b \in Range(FreeList(CurB, k)) :
          Disjoint(p, live[p].n, b + BUDHDR, Pow2(BudAt(CurB, b).order) - BUDHDR)

(* ------------------------------------------------------------------ *)
(* C2: refused requests                                                *)
(* ------------------------------------------------------------------ *)
\* C2: in every reachable state, a main-arena entry called with n = 0 or
\* with n larger than every free block's payload returns NULL, the buddy
\* entry called with n = 0 or n + BUDHDR > 2^(MAXORD-1) returns NULL, and
\* such a call changes no block's size or status.
C2_RefusedCallsReturnNull ==
    /\ \A e \in MainEntries : \A n \in ProbeSizes :
          (n = 0 \/ \A z \in FreeSizes(Here) : z < n) =>
              LET R == CallMain(e, Here, n)
              IN  /\ ~R.S.hang
                  /\ R.ret = NULL
                  /\ BlockView(R.S) = BlockView(Here)
    /\ \A n \in BuddyProbeSizes :
          (n = 0 \/ n + BUDHDR > Pow2(MAXORD - 1)) =>
              LET R == malloc_buddy_alloc(CurB, current_strategy, n)
              IN  /\ R.ret = NULL
                  /\ BudView(R.B) = BudView(CurB)

(* ------------------------------------------------------------------ *)
(* C3: the strategy tag                                                *)
(* ------------------------------------------------------------------ *)
\* the tag after the call of entry e with n, as current-strategy() reports it
TagAfter(e, n) ==
    IF e = ALLOC_STRATEGY_BUDDY
    THEN allocator_current_strategy(malloc_buddy_alloc(CurB, current_strategy, n).strategy)
    ELSE allocator_current_strategy(CallMain(e, Here, n).S.strategy)

Returns(e, n) == e = ALLOC_STRATEGY_BUDDY \/ ~CallMain(e, Here, n).S.hang

RetOf(e, n) ==
    IF e = ALLOC_STRATEGY_BUDDY THEN malloc_buddy_alloc(CurB, current_strategy, n).ret
    ELSE CallMain(e, Here, n).ret

AllEntries == MainEntries \cup {ALLOC_STRATEGY_BUDDY}
AllProbeSizes == ProbeSizes \cup BuddyProbeSizes

\* C3 as stated: after any call of entry e that returns, also with n = 0,
\* current-strategy() is e.
C3_TagSetAtEntry ==
    \A e \in AllEntries : \A n \in AllProbeSizes :
        Returns(e, n) => TagAfter(e, n) = e

\* C3 amended: a call with n = 0 returns NULL and leaves the tag as it was;
\* a call with n > 0 that returns, also one that finds no block, leaves
\* current-strategy() = e.
C3_TagSetAfterZeroCheck ==
    \A e \in AllEntries : \A n \in AllProbeSizes :
        Returns(e, n) =>
            IF n = 0
            THEN /\ RetOf(e, n) = NULL
                 /\ TagAfter(e, n) = allocator_current_strategy(current_strategy)
            ELSE TagAfter(e, n) = e

\* a failed call with n > 0 changes the tag, and a call with n = 0 does not
C3_Witness ==
    /\ current_strategy = ALLOC_STRATEGY_BUDDY
    /\ heap0_inited
    /\ \E n \in ProbeSizes \ {0} :
          /\ RetOf(ALLOC_STRATEGY_WORST, n) = NULL
          /\ TagAfter(ALLOC_STRATEGY_WORST, n) = ALLOC_STRATEGY_WORST
    /\ TagAfter(ALLOC_STRATEGY_WORST, 0) = ALLOC_STRATEGY_BUDDY

(* ------------------------------------------------------------------ *)
(* C4: my_free on NULL, on a header without MAGIC_A, and twice         *)
(* ------------------------------------------------------------------ *)
\* the magic my_free reads in front of p
MagicBefore(p) ==
    IF b_inited /\ InBuddy(p)
    THEN BudAt(CurB, p - BUDHDR).magic
    ELSE (IF p - HDRSZ \in DOMAIN mem THEN mem[p - HDRSZ].magic ELSE MAGIC_0)

FreeOnce(p, hs) == my_free(At(hs), CurB, p)
FreeTwice(p, hs, hs2) ==
    LET R == FreeOnce(p, hs) IN my_free([R.S EXCEPT !.lv = hs2], R.B, p)

SameOutcome(R, Q) == Obs(R.S) = Obs(Q.S) /\ R.B = Q.B

\* C4: in every reachable state, my_free(p) with p = NULL or with a header
\* in front of p whose magic is not MAGIC_A changes nothing, and my_free(p)
\* called twice in a row leaves the state one call leaves.
C4_FreeIgnoredAndIdempotent ==
    \A p \in {NULL} \cup MainPtrs \cup BuddyPtrs : \A hs \in LvlPairs :
        /\ (p = NULL \/ MagicBefore(p) # MAGIC_A) =>
              SameOutcome(FreeOnce(p, hs), [S |-> Here, B |-> CurB])
        /\ ~FreeOnce(p, hs).S.hang =>
              \A hs2 \in LvlPairs : SameOutcome(FreeTwice(p, hs, hs2), FreeOnce(p, hs))

\* a handle is live in each arena and freeing it changes the state, while
\* the first block, cut to a request and handed out earlier, is free again:
\* its handle is a pointer already freed
C4_Witness ==
    /\ \E p \in MainPtrs : /\ p \in DOMAIN live /\ MagicBefore(p) = MAGIC_A
                           /\ ~SameOutcome(FreeOnce(p, <<1, 1>>), [S |-> Here, B |-> CurB])
    /\ \E p \in BuddyPtrs : /\ p \in DOMAIN live /\ MagicBefore(p) = MAGIC_A
                            /\ ~SameOutcome(FreeOnce(p, <<1, 1>>), [S |-> Here, B |-> CurB])
    /\ heap0_inited /\ heap0 + HDRSZ \notin DOMAIN live
    /\ mem[heap0].magic = MAGIC_F /\ mem[heap0].sz \in SizesAll

(* ------------------------------------------------------------------ *)
(* C5: the main arena once every handle is back                        *)
(* ------------------------------------------------------------------ *)
\* C5: whenever the main arena is bootstrapped and no main-arena handle is
\* outstanding, the address list is the one block at heap0, that block has
\* payload HEAP_SIZE - HDRSZ, and the size index holds that node alone.
C5_AllFreedIsBootstrapShape ==
    (heap0_inited /\ MainLive = 0) =>
        /\ AddrList(Here) = <<heap0>>
        /\ mem[heap0].sz = HEAP_SIZE - HDRSZ
        /\ IndexLevel(Here, 0) = <<heap0>>
        /\ \A i \in 1..(SKLVL - 1) : Range(IndexLevel(Here, i)) \subseteq {heap0}

(* ------------------------------------------------------------------ *)
(* C6: the buddy arena once every handle is back                       *)
(* ------------------------------------------------------------------ *)
\* C6: whenever the buddy arena is initialised and no buddy handle is
\* outstanding, its only block is the free block at offset 0 of order
\* MAXORD-1, it is the only node of free list MAXORD-1, and every free list
\* of lower order is empty.
C6_AllFreedIsOneTopBlock ==
    (b_inited /\ BuddyLive = 0) =>
        /\ BudBlocks(CurB) = {b_arena}
        /\ BudAt(CurB, b_arena).order = MAXORD - 1
        /\ BudAt(CurB, b_arena).is_free = 1
        /\ FreeList(CurB, MAXORD - 1) = <<b_arena>>
        /\ \A k \in 0..(MAXORD - 2) : bfl[k] = NULL

(* ------------------------------------------------------------------ *)
(* C7: no two free blocks of the main arena touch                      *)
(* ------------------------------------------------------------------ *)
\* C7: in every state between calls there are no two free blocks X, Y of
\* the main arena with X + HDRSZ + X.sz = Y.
C7_NoAdjacentFreeBlocks ==
    \A x, y \in FreeBlocks(Here) : x + HDRSZ + mem[x].sz # y

\* C7 for the blocks of the address list alone
C7_NoAdjacentListedBlocks ==
    \A x, y \in Range(AddrList(Here)) : x + HDRSZ + mem[x].sz # y

(* ------------------------------------------------------------------ *)
(* C8: address list, index level 0 and free blocks are one set         *)
(* ------------------------------------------------------------------ *)
\* C8: in every state between calls the blocks reachable in the address
\* list, the blocks reachable at level 0 of the size index and the free
\* blocks of the main arena are the same set.
C8_ListIndexFreeSame ==
    /\ Range(AddrList(Here)) = Range(IndexLevel(Here, 0))
    /\ Range(AddrList(Here)) = FreeBlocks(Here)

(* ------------------------------------------------------------------ *)
(* C9: the address list is ascending and doubly linked                 *)
(* ------------------------------------------------------------------ *)
\* C9: in every state between calls the address list is strictly ascending
\* by address from head to tail, its head has no predecessor, and X.anext = Y
\* exactly when Y.aprev = X for the nodes of the list.
C9_AddrListAscendingLinked ==
    LET L == AddrList(Here)
    IN  /\ Len(L) <= Cardinality(DOMAIN mem)
        /\ \A k \in 1..(Len(L) - 1) : L[k] < L[k + 1]
        /\ alist_head # NULL => mem[alist_head].aprev = NULL
        /\ \A k \in 1..(Len(L) - 1) : mem[L[k + 1]].aprev = L[k]
        /\ \A x \in Range(L) : \A y \in DOMAIN mem :
              (mem[y].aprev = x /\ y \in Range(L)) => mem[x].anext = y

\* two blocks are handed out and three free blocks lie around them, each
\* linked to the next: my_free has put one of them between the two others
C9_Witness ==
    LET L == AddrList(Here)
    IN  /\ Len(L) = 3
        /\ MainLive = 2
        /\ mem[L[2]].aprev = L[1] /\ mem[L[2]].anext = L[3]
        /\ \A p \in DOMAIN live : L[1] < p /\ p < L[3]

(* ------------------------------------------------------------------ *)
(* C10: no free buddy pair of equal order                              *)
(* ------------------------------------------------------------------ *)
\* the free blocks of the buddy arena: the free ones among its blocks and
\* every node of a free list
BudFree(B) ==
    BudFreeBlocks(B) \cup UNION {Range(FreeList(B, k)) : k \in 0..(MAXORD - 1)}

\* C10: in every state between calls there is no order k < MAXORD-1 and no
\* two free blocks of order k at offsets o and o XOR 2^k.
C10_NoFreeBuddyPair ==
    \A k \in 0..(MAXORD - 2) : \A x, y \in BudFree(CurB) :
        (BudAt(CurB, x).order = k /\ BudAt(CurB, y).order = k)
            => Xor(x - b_arena, Pow2(k)) # y - b_arena

\* a merge has happened (a header is no longer a block) and a free block of
\* lower order stays unmerged beside an allocated buddy
C10_Witness ==
    /\ BudHeaders(CurB) \ BudBlocks(CurB) # {}
    /\ \E x \in BudFree(CurB) :
          /\ BudAt(CurB, x).order < MAXORD - 1
          /\ b_buddy(CurB, x) \in BudBlocks(CurB)
          /\ BudAt(CurB, b_buddy(CurB, x)).is_free = 0
          /\ BudAt(CurB, b_buddy(CurB, x)).order = BudAt(CurB, x).order

(* ------------------------------------------------------------------ *)
(* C12: the rover                                                      *)
(* ------------------------------------------------------------------ *)
\* C12: in every state between calls rover is NULL or a node of the address
\* list, and it is NULL when the address list is empty.
C12_RoverInAddrList ==
    /\ rover = NULL \/ rover \in Range(AddrList(Here))
    /\ alist_head = NULL => rover = NULL

(* ------------------------------------------------------------------ *)
(* C13: every entry returns                                            *)
(* ------------------------------------------------------------------ *)
\* C13: no call has entered a loop it never leaves, and in every reachable
\* state every main-arena entry and my_free return for every argument; the
\* merge loop of bfm runs at most MAXORD-1 times.
C13_EveryCallReturns ==
    /\ ~hang
    /\ \A e \in MainEntries : \A n \in ProbeSizes : ~CallMain(e, Here, n).S.hang
    /\ \A p \in {NULL} \cup MainPtrs : ~FreeOnce(p, <<1, 1>>).S.hang
    /\ \A p \in BuddyPtrs :
          (b_inited /\ MagicBefore(p) = MAGIC_A) =>
              bfm_turns(bfm_freed(CurB, p - BUDHDR), p - BUDHDR) <= MAXORD - 1

(* ------------------------------------------------------------------ *)
(* C14..C17: which block each strategy takes                           *)
(* ------------------------------------------------------------------ *)
\* the main arena as an allocation entry finds it after its bootstrap step
Ready == heap_bootstrap(Here)

\* the block a pointer returned by a main-arena entry belongs to
BlockOf(ret) == IF ret = NULL THEN NULL ELSE ret - HDRSZ

\* the first node of the sequence q with payload >= n, NULL if none
FirstFitting(S, q, n) ==
    IF \A k \in 1..Len(q) : S.mem[q[k]].sz < n THEN NULL
    ELSE q[CHOOSE k \in 1..Len(q) :
                /\ S.mem[q[k]].sz >= n
                /\ \A j \in 1..(k - 1) : S.mem[q[j]].sz < n]

\* the sequence L read circularly, starting at its node x
FromNode(L, x) ==
    LET k == CHOOSE j \in 1..Len(L) : L[j] = x
    IN  [j \in 1..Len(L) |-> L[((k + j - 2) % Len(L)) + 1]]

\* a comes before b in the (size, address) order
KeyBefore(S, a, b) ==
    S.mem[a].sz < S.mem[b].sz \/ (S.mem[a].sz = S.mem[b].sz /\ a < b)

\* the free blocks with payload >= n
Fitting(S, n) == {b \in FreeBlocks(S) : S.mem[b].sz >= n}

\* C14: in every reachable state and for every n > 0, malloc_next_fit(n)
\* returns, and the block it takes is the first with payload >= n in the
\* address list read circularly from rover (from the head if rover is
\* NULL); it returns NULL when there is none.
C14_NextFitTakesFirstFromRover ==
    \A n \in ProbeSizes \ {0} :
        LET L == AddrList(Ready)
            R == CallMain(ALLOC_STRATEGY_NEXT, Here, n)
        IN  /\ ~R.S.hang
            /\ IF L = << >> THEN R.ret = NULL
               ELSE /\ Ready.rover = NULL \/ Ready.rover \in Range(L)
                    /\ BlockOf(R.ret) =
                         FirstFitting(Ready,
                                      FromNode(L, IF Ready.rover = NULL THEN L[1]
                                                  ELSE Ready.rover), n)

\* C15: in every reachable state and for every n > 0, malloc_best_fit(n)
\* returns NULL exactly when no free block has payload >= n, and otherwise
\* takes the fitting free block that comes first in the (size, address)
\* order.
C15_BestFitTakesSmallestFitting ==
    \A n \in ProbeSizes \ {0} :
        LET R == CallMain(ALLOC_STRATEGY_BEST, Here, n)
            F == Fitting(Ready, n)
        IN  /\ ~R.S.hang
            /\ (R.ret = NULL) <=> (F = {})
            /\ R.ret # NULL =>
                  /\ BlockOf(R.ret) \in F
                  /\ \A c \in F \ {BlockOf(R.ret)} : KeyBefore(Ready, BlockOf(R.ret), c)

\* a node of the index has more than one level, and malloc_best_fit passes
\* over a fitting block of lower address for a smaller one
C15_Witness ==
    /\ heap0_inited
    /\ \E b \in Range(IndexLevel(Here, 0)) : mem[b].lvl > 1
    /\ \E n \in ProbeSizes \ {0} :
          /\ CallMain(ALLOC_STRATEGY_BEST, Here, n).ret # NULL
          /\ \E c \in Fitting(Here, n) :
                /\ c < BlockOf(CallMain(ALLOC_STRATEGY_BEST, Here, n).ret)
                /\ mem[c].sz > mem[BlockOf(CallMain(ALLOC_STRATEGY_BEST, Here, n).ret)].sz

\* C16: in every reachable state and for every n > 0, malloc_worst_fit(n)
\* returns NULL exactly when there is no free block or the free block that
\* comes last in the (size, address) order has payload < n, and otherwise
\* takes that block.
C16_WorstFitTakesLargest ==
    \A n \in ProbeSizes \ {0} :
        LET R == CallMain(ALLOC_STRATEGY_WORST, Here, n)
            F == FreeBlocks(Ready)
        IN  /\ ~R.S.hang
            /\ (R.ret = NULL) <=> (Fitting(Ready, n) = {})
            /\ R.ret # NULL =>
                  /\ BlockOf(R.ret) \in F
                  /\ \A c \in F \ {BlockOf(R.ret)} : KeyBefore(Ready, c, BlockOf(R.ret))

\* a node of the index has more than one level, malloc_worst_fit passes over
\* a fitting block of lower address for a larger one, and it refuses a
\* request that is larger than the largest block
C16_Witness ==
    /\ heap0_inited
    /\ \E b \in Range(IndexLevel(Here, 0)) : mem[b].lvl > 1
    /\ \E n \in ProbeSizes \ {0} :
          /\ CallMain(ALLOC_STRATEGY_WORST, Here, n).ret # NULL
          /\ \E c \in Fitting(Here, n) :
                /\ c < BlockOf(CallMain(ALLOC_STRATEGY_WORST, Here, n).ret)
                /\ mem[c].sz < mem[BlockOf(CallMain(ALLOC_STRATEGY_WORST, Here, n).ret)].sz
    /\ \E n \in ProbeSizes \ {0} :
          /\ FreeBlocks(Here) # {}
          /\ CallMain(ALLOC_STRATEGY_WORST, Here, n).ret = NULL

\* the rover malloc_first_fit is to leave after it took block b of the list
\* L and the address list became L2: the remainder if there is one, else
\* the successor of b, else the head of the list (NULL if it is empty)
RoverAfterFirstFit(S, L, b, rem, L2) ==
    IF rem # NULL THEN rem
    ELSE IF S.mem[b].anext # NULL THEN S.mem[b].anext
    ELSE IF L2 = << >> THEN NULL ELSE L2[1]

\* the free block created by the call that led from S to T, NULL if none
NewFree(S, T) ==
    IF FreeBlocks(T) \ FreeBlocks(S) = {} THEN NULL
    ELSE CHOOSE b \in FreeBlocks(T) \ FreeBlocks(S) : TRUE

\* C17: in every reachable state and for every n > 0, malloc_first_fit(n)
\* takes the free block of lowest address with payload >= n (NULL if there
\* is none), and leaves rover at the remainder if it made one, otherwise at
\* the successor of the block taken, or at the head of the list (NULL if the
\* list is empty) when the block taken was the tail.
C17_FirstFitTakesLowestAndSetsRover ==
    \A n \in ProbeSizes \ {0} :
        LET R == CallMain(ALLOC_STRATEGY_FIRST, Here, n)
            F == Fitting(Ready, n)
        IN  /\ ~R.S.hang
            /\ (R.ret = NULL) <=> (F = {})
            /\ R.ret # NULL =>
                  /\ BlockOf(R.ret) \in F
                  /\ \A c \in F : BlockOf(R.ret) <= c
                  /\ R.S.rover = RoverAfterFirstFit(Ready, AddrList(Ready), BlockOf(R.ret),
                                                    NewFree(Ready, R.S), AddrList(R.S))

(* ------------------------------------------------------------------ *)
(* C18: when a block is split                                          *)
(* ------------------------------------------------------------------ *)
\* request sizes around the point where a free block of S starts to be
\* split: n + HDRSZ + MIN_TAIL = payload, one byte less and one byte more
SplitSizes(S) ==
    ProbeSizes \cup
    {z - HDRSZ - MIN_TAIL + d : z \in {y \in FreeSizes(S) : y > HDRSZ + MIN_TAIL},
                                d \in {-1, 0, 1}}

\* the call R of an entry with n took the free block b of S as C18 says
SplitAsStated(S, R, b, n) ==
    IF S.mem[b].sz >= n + HDRSZ + MIN_TAIL
    THEN /\ R.S.mem[b].sz = n
         /\ R.ret + n \in FreeBlocks(R.S)
         /\ R.S.mem[R.ret + n].sz = S.mem[b].sz - n - HDRSZ
         /\ R.S.mem[R.ret + n].sz >= MIN_TAIL
         /\ FreeBlocks(R.S) = (FreeBlocks(S) \ {b}) \cup {R.ret + n}
    ELSE /\ R.S.mem[b].sz = S.mem[b].sz
         /\ FreeBlocks(R.S) = FreeBlocks(S) \ {b}

\* C18: in every reachable state, when a main-arena entry called with n > 0
\* returns a block that was free with payload S: if S >= n + HDRSZ + MIN_TAIL
\* the block is cut to n and one free block of payload S - n - HDRSZ (never
\* less than MIN_TAIL) appears right behind the n bytes handed out, and
\* otherwise the block keeps S and no free block appears.  On the arena
\* before any call a request of HEAP_SIZE - HDRSZ gets the block at heap0
\* whole.
C18_SplitRule ==
    /\ \A e \in MainEntries : \A n \in SplitSizes(Ready) \ {0} :
          LET R == CallMain(e, Here, n)
          IN  (~R.S.hang /\ R.ret # NULL /\ BlockOf(R.ret) \in FreeBlocks(Ready))
                  => SplitAsStated(Ready, R, BlockOf(R.ret), n)
    /\ ~heap0_inited =>
          \A e \in MainEntries :
              /\ CallMain(e, Here, HEAP_SIZE - HDRSZ).ret = heap0 + HDRSZ
              /\ FreeBlocks(CallMain(e, Here, HEAP_SIZE - HDRSZ).S) = {}

\* some block is handed out, and of one free block a request leaves a
\* remainder of exactly MIN_TAIL bytes while a request one byte longer gets
\* the block whole, MIN_TAIL + HDRSZ - 1 bytes longer than asked for
C18_Witness ==
    /\ heap0_inited /\ MainLive > 0
    /\ \E n \in SplitSizes(Here) \ {0} :
          LET R == CallMain(ALLOC_STRATEGY_FIRST, Here, n)
              Q == CallMain(ALLOC_STRATEGY_FIRST, Here, n + 1)
          IN  /\ R.ret # NULL /\ Q.ret = R.ret
              /\ BlockOf(R.ret) \in FreeBlocks(Here)
              /\ R.ret + n \in FreeBlocks(R.S)
              /\ R.S.mem[R.ret + n].sz = MIN_TAIL
              /\ Q.S.mem[BlockOf(Q.ret)].sz = n + HDRSZ + MIN_TAIL
              /\ FreeBlocks(Q.S) = FreeBlocks(Here) \ {BlockOf(Q.ret)}

(* ------------------------------------------------------------------ *)
(* C19: what malloc_buddy_alloc takes                                  *)
(* ------------------------------------------------------------------ *)
\* request sizes for the buddy entry, the largest size_t among them
BuddyCallSizes == (BuddyProbeSizes \ {0}) \cup {BUDHDR, BUDHDR + 1, SIZE_MAX}

\* the smallest order k with 2^k >= n + BUDHDR, MAXORD if there is none
\* below MAXORD; n + BUDHDR is the sum of the numbers, not of the code
RECURSIVE OrderFrom(_, _)
OrderFrom(need, k) ==
    IF k >= MAXORD \/ Pow2(k) >= need THEN k ELSE OrderFrom(need, k + 1)

OrderFor(n) == IF n < 0 THEN MAXORD ELSE OrderFrom(n + BUDHDR, 0)

\* the orders >= k whose free list is not empty
OrdersFrom(B, k) == {j \in k..(MAXORD - 1) : B.bfl[j] # NULL}

LeastOf(X) == CHOOSE j \in X : \A i \in X : j <= i

\* the call R on the arena B took the head b of free list j for order k as
\* C19 says
TakenAsStated(B, R, b, j, k) ==
    /\ R.ret = b + BUDHDR
    /\ BudAt(R.B, b).order = k
    /\ BudAt(R.B, b).is_free = 0
    /\ BudAt(R.B, b).magic = MAGIC_A
    /\ \A i \in 0..(MAXORD - 1) :
          FreeList(R.B, i) =
              IF i >= k /\ i < j THEN <<b + Pow2(i)>> \o FreeList(B, i)
              ELSE IF i = j THEN Tail(FreeList(B, j))
              ELSE FreeList(B, i)
    /\ \A i \in k..(j - 1) :
          /\ BudAt(R.B, b + Pow2(i)).order = i
          /\ BudAt(R.B, b + Pow2(i)).is_free = 1

\* C19: in every reachable state and for every n > 0, with k the smallest
\* order such that 2^k >= n + BUDHDR: malloc_buddy_alloc(n) returns NULL
\* exactly when k >= MAXORD or every free list of order >= k is empty;
\* otherwise it takes the head of the non-empty free list of least order
\* j >= k, pushes the right halves b + 2^i for i = j-1 down to k onto free
\* list i, and returns b with order k, allocated.
C19_BuddyTakesLeastOrder ==
    \A n \in BuddyCallSizes :
        LET B == b_init(CurB)
            R == malloc_buddy_alloc(CurB, current_strategy, n)
            k == OrderFor(n)
        IN  /\ (R.ret = NULL) <=> (k >= MAXORD \/ OrdersFrom(B, k) = {})
            /\ R.ret # NULL =>
                  TakenAsStated(B, R, B.bfl[LeastOf(OrdersFrom(B, k))],
                                LeastOf(OrdersFrom(B, k)), k)

\* C19 for the requests whose n + BUDHDR does not wrap
C19_BuddyTakesLeastOrderNoWrap ==
    \A n \in BuddyCallSizes \ {SIZE_MAX} :
        LET B == b_init(CurB)
            R == malloc_buddy_alloc(CurB, current_strategy, n)
            k == OrderFor(n)
        IN  /\ (R.ret = NULL) <=> (k >= MAXORD \/ OrdersFrom(B, k) = {})
            /\ R.ret # NULL =>
                  TakenAsStated(B, R, B.bfl[LeastOf(OrdersFrom(B, k))],
                                LeastOf(OrdersFrom(B, k)), k)

(* ------------------------------------------------------------------ *)
(* C20: order and content of the levels of the size index              *)
(* ------------------------------------------------------------------ *)
\* x is linked at some level of the size index of S
Linked(S, x) == \E i \in 0..(SKLVL - 1) : x \in Range(IndexLevel(S, i))

\* level i of the index of S is strictly ascending by (size, address), ends
\* with a NULL link and holds the nodes of level 0 whose lvl is above i
LevelAsStated(S, i) ==
    LET L == IndexLevel(S, i) IN
    /\ \A j \in 1..(Len(L) - 1) : KeyBefore(S, L[j], L[j + 1])
    /\ Len(L) > 0 => S.mem[L[Len(L)]].snext[i] = NULL
    /\ Range(L) = {b \in Range(IndexLevel(S, 0)) : S.mem[b].lvl > i}

\* the state in which an allocation entry that took the block cur resizes
\* it: after alu(cur); sidx_remove_exact(cur)
Resizing(S, cur) == unlinked(heap_bootstrap(S), cur)

\* the state in which cola(blk), called by my_free(blk + HDRSZ), grows the
\* merged block: after the removals from the index
Growing(S, blk) ==
    LET F == sidx_insert(free_marked(free_linked(S, blk,
                 free_scan(S, NULL, S.alist_head, blk, Fuel(S))), blk), blk)
        p == F.mem[blk].aprev
        n == F.mem[blk].anext
        mp == p # NULL /\ adjacent(F, p, blk)
        mn == n # NULL /\ adjacent(F, blk, n)
    IN  [U |-> cola_unindexed(F, blk, p, n, mp, mn),
         grown |-> IF mp THEN {p} ELSE IF mn THEN {blk} ELSE {}]

\* C20: when a public operation has returned, every level i of the size
\* index is a list strictly ascending by (size, then address) that holds
\* exactly the indexed nodes (those of level 0) whose lvl is greater than
\* i, whatever levels were drawn; and a node whose size is about to be
\* written (the block an allocation entry splits, the header smt writes
\* behind it, the block cola grows) is linked at no level of the index.
C20_IndexLevelsOrdered ==
    /\ \A i \in 0..(SKLVL - 1) : LevelAsStated(Here, i)
    /\ \A e \in MainEntries : \A n \in ProbeSizes \ {0} :
          LET R == CallMain(e, Here, n) IN
          (~R.S.hang /\ R.ret # NULL) =>
              LET U == Resizing(Here, BlockOf(R.ret)) IN
              /\ ~Linked(U, BlockOf(R.ret))
              /\ smt(U, BlockOf(R.ret), n).rem # NULL
                    => ~Linked(U, smt(U, BlockOf(R.ret), n).rem)
    /\ \A p \in MainPtrs :
          (mem[p - HDRSZ].magic = MAGIC_A /\ ~FreeOnce(p, <<1, 1>>).S.hang) =>
              \A x \in Growing(Here, p - HDRSZ).grown :
                  ~Linked(Growing(Here, p - HDRSZ).U, x)

\* a state with two nodes at level 1 of the index, a third node at level 0
\* only, two indexed nodes of equal size, and a live block that my_free
\* would merge with a neighbour
C20_Witness ==
    /\ ~hang
    /\ Len(IndexLevel(Here, 1)) >= 2
    /\ Len(IndexLevel(Here, 0)) > Len(IndexLevel(Here, 1))
    /\ \E a, b \in Range(IndexLevel(Here, 0)) : a # b /\ mem[a].sz = mem[b].sz
    /\ \E p \in MainPtrs :
          /\ mem[p - HDRSZ].magic = MAGIC_A
          /\ ~FreeOnce(p, <<1, 1>>).S.hang
          /\ Growing(Here, p - HDRSZ).grown # {}

(* ------------------------------------------------------------------ *)
(* C11: the same calls give the same addresses                         *)
(* ------------------------------------------------------------------ *)
\* C11: two processes that make the same sequence of alloc/free calls on a
\* fresh allocator get the same payload address (or NULL, or no return)
\* from every allocation call, whatever levels rand_lvl() draws in either.
C11_SameCallsSameAddresses == same

\* the last call was malloc_best_fit in both processes, handles are out,
\* the size index holds two nodes or more, and the second process drew a
\* level above 1 for one of them while the first drew level 1 for all
C11_Witness ==
    /\ same /\ ~hang /\ ~twin.S.hang
    /\ current_strategy = ALLOC_STRATEGY_BEST
    /\ twin.S.strategy = ALLOC_STRATEGY_BEST
    /\ DOMAIN live # {}
    /\ Len(IndexLevel(Here, 0)) >= 2
    /\ sidx[1] = NULL
    /\ twin.S.sidx[1] # NULL

(* ------------------------------------------------------------------ *)
(* C21: the listed and the live blocks tile the main arena             *)
(* ------------------------------------------------------------------ *)
\* the blocks of the main arena that are in the address list or handed out
\* and not yet freed
Owned ==
    Range(AddrList(Here)) \cup {p - HDRSZ : p \in {q \in DOMAIN live : InMain(q)}}

\* the blocks of T, in address order from a on, follow one another without
\* gap (each ends at a + HDRSZ + sz, where the next begins) and the last
\* ends at heap0_end
RECURSIVE TilesFrom(_, _)
TilesFrom(T, a) ==
    IF a = heap0_end THEN T = {}
    ELSE /\ a \in T
         /\ a \in DOMAIN mem
         /\ TilesFrom(T \ {a}, a + HDRSZ + mem[a].sz)

\* C21: in every state between calls of a bootstrapped main arena, the
\* blocks that are in the address list or live tile the arena: the first
\* starts at heap0, each ends where the next begins, the last ends at
\* heap0_end.
C21_OwnedBlocksTileArena == heap0_inited => TilesFrom(Owned, heap0)

====
